---------------------------- MODULE Spec2Model ----------------------------
(* Producer/consumer ring buffer of src/main.c: main() produces RGB       *)
(* records into queue[], the TIMER0_OVF interrupt consumes them and        *)
(* calibrates its own period (consume_every).                              *)
(*                                                                         *)
(* main() is modelled one memory access at a time (pc is its position);    *)
(* the interrupt handler runs to completion, so it is one atomic action    *)
(* per branch of its code.  The interrupt may fire between any two steps   *)
(* of main() once Timer0_Init has executed sei().                          *)
EXTENDS Naturals, Sequences, FiniteSets

(* ------------------------------ bounds -------------------------------- *)

\* NELEMS(queue): 128 in the source, scaled down.
N == 4

\* Number of values of one colour field: 256 in the source (uint8_t), scaled down.
FieldMod == 2

\* The producer's for(;;) loop is observed for this many records.
MaxEnq == 10

\* The knob sets the modifier to 0 .. MaxModifier or to the largest uint8_t.
MaxModifier == 2

(* ------------------------- program constants -------------------------- *)

\* uint8_t arithmetic of cycle and consume_every wraps modulo 2^8.
Uint8Mod == 256

\* strlen("Producer/Consumer Example\n\n")
BannerLen == 27

(* ------------------------------- state -------------------------------- *)

VARIABLES
    queue,                  \* volatile RGB queue[N]
    head,                   \* next slot to read, written by the ISR only
    tail,                   \* next slot to write, written by main() only
    enable_consumer,        \* 0 / 1
    consume_every_modifier, \* manual slow-down, never written by the program
    cycle,                  \* static uint8_t of the ISR
    consume_every,          \* static uint8_t of the ISR
    rgb,                    \* main()'s local record
    pc,                     \* main()'s position
    interrupts,             \* TRUE once sei() ran with TOIE0 set
    tx_main,                \* bytes of main()'s string already on the USART
    tx_isr,                 \* messages the ISR has put on the USART
    enqueued,               \* history: records whose enqueue() completed
    dequeued,               \* history: records dequeue() returned
    was_full                \* history: full() has held in some state so far

vars == <<queue, head, tail, enable_consumer, consume_every_modifier, cycle,
          consume_every, rgb, pc, interrupts, tx_main, tx_isr, enqueued,
          dequeued, was_full>>

shared == <<queue, head, tail, enable_consumer, consume_every_modifier>>
isr_static == <<cycle, consume_every>>
history == <<enqueued, dequeued, was_full>>

(* ------------------------------- types -------------------------------- *)

Field == 0 .. (FieldMod - 1)

RGB == [r : Field, g : Field, b : Field]

Index == 0 .. (N - 1)

\* RGB rgb = { 0 };  and the zero-initialised global queue
ZeroRGB == [r |-> 0, g |-> 0, b |-> 0]

(* --------------------------- queue functions -------------------------- *)

empty(h, t) == h = t

\* Variant of full: the modulo is forgotten.
FullNoWrap(h, t) == h = t + 1

\* Variant of full: the + 1 is forgotten.
FullNoPlusOne(h, t) == h = t % N

full(h, t) == h = (t + 1) % N

\* Variant of NextIndex: the modulus is one short of the array length.
NextIndexShort(i) == (i + 1) % (N - 1)

\* Variant of NextIndex: the % NELEMS(queue) is forgotten.
NextIndexNoMod(i) == i + 1

\* (tail + 1) % NELEMS(queue), (head + 1) % NELEMS(queue)
NextIndex(i) == (i + 1) % N

\* queue[tail] = *rgb;
Store(q, t, rec) == [q EXCEPT ![t] = rec]

\* uint8_t ++
Inc8(x) == (x + 1) % Uint8Mod

\* Variant of Odometer: the loops nested the other way round (r innermost).
OdometerSwapped(c) ==
    LET b1 == (c.b + 1) % FieldMod
        g1 == (c.g + 1) % FieldMod
        r1 == (c.r + 1) % FieldMod
    IN  IF r1 # 0 THEN [c EXCEPT !.r = r1]
        ELSE IF g1 # 0 THEN [c EXCEPT !.r = 0, !.g = g1]
        ELSE [r |-> 0, g |-> 0, b |-> b1]

\* } while (++rgb.b != 0); } while (++rgb.g != 0); } while (++rgb.r != 0);
Odometer(c) ==
    LET b1 == (c.b + 1) % FieldMod
        g1 == (c.g + 1) % FieldMod
        r1 == (c.r + 1) % FieldMod
    IN  IF b1 # 0 THEN [c EXCEPT !.b = b1]
        ELSE IF g1 # 0 THEN [c EXCEPT !.b = 0, !.g = g1]
        ELSE [r |-> r1, g |-> 0, b |-> 0]

\* The k-th record (from 0) the producer's loops visit.
NthRGB(k) ==
    [r |-> (k \div (FieldMod * FieldMod)) % FieldMod,
     g |-> (k \div FieldMod) % FieldMod,
     b |-> k % FieldMod]

(* ------------------------------- Init --------------------------------- *)

InitAt(period, position, sei, filled, contents) ==
    /\ queue = contents
    /\ head = 0
    /\ tail = 0
    /\ enable_consumer = 0
    /\ consume_every_modifier = 0
    /\ cycle = 0
    /\ consume_every = period
    /\ rgb = ZeroRGB
    /\ pc = position
    /\ interrupts = sei
    /\ tx_main = 0
    /\ tx_isr = 0
    /\ enqueued = << >>
    /\ dequeued = << >>
    /\ was_full = filled

\* The state at the first statement of main().
Init == InitAt(1, "banner", FALSE, FALSE, [i \in Index |-> ZeroRGB])

(* ------------------------------ main() -------------------------------- *)

\* USART_TransmitString("Producer/Consumer Example\n\n"), one byte per step;
\* the step that finds the terminating NUL returns.
MainBanner ==
    /\ pc = "banner"
    /\ IF tx_main < BannerLen
          THEN tx_main' = tx_main + 1 /\ pc' = pc
          ELSE tx_main' = 0 /\ pc' = "timer_init"
    /\ UNCHANGED <<shared, isr_static, rgb, interrupts, tx_isr, history>>

\* Timer0_Init(): TOIE0 and sei()
MainTimerInit ==
    /\ pc = "timer_init"
    /\ interrupts' = TRUE
    /\ pc' = "test_full"
    /\ UNCHANGED <<shared, isr_static, rgb, tx_main, tx_isr, history>>

\* Variant of MainTestFull: the producer does not wait for room.
MainTestFullNoSpin ==
    /\ pc = "test_full"
    /\ Len(enqueued) < MaxEnq
    /\ pc' = "write_r"
    /\ UNCHANGED <<shared, isr_static, rgb, interrupts, tx_main, tx_isr, history>>

\* while (full())
MainTestFull ==
    /\ pc = "test_full"
    /\ Len(enqueued) < MaxEnq
    /\ pc' = IF full(head, tail) THEN "set_enable" ELSE "write_r"
    /\ UNCHANGED <<shared, isr_static, rgb, interrupts, tx_main, tx_isr, history>>

\* Variant of MainSetEnable: the spin loop has an empty body.
MainSetEnableNot ==
    /\ pc = "set_enable"
    /\ pc' = "test_full"
    /\ UNCHANGED <<shared, isr_static, rgb, interrupts, tx_main, tx_isr, history>>

\*     enable_consumer = 1;
MainSetEnable ==
    /\ pc = "set_enable"
    /\ enable_consumer' = 1
    /\ pc' = "test_full"
    /\ UNCHANGED <<queue, head, tail, consume_every_modifier, isr_static, rgb,
                   interrupts, tx_main, tx_isr, history>>

\* enqueue(): queue[tail] = *rgb, a three byte copy
MainWriteR ==
    /\ pc = "write_r"
    /\ queue' = [queue EXCEPT ![tail].r = rgb.r]
    /\ pc' = "write_g"
    /\ UNCHANGED <<head, tail, enable_consumer, consume_every_modifier,
                   isr_static, rgb, interrupts, tx_main, tx_isr, history>>

MainWriteG ==
    /\ pc = "write_g"
    /\ queue' = [queue EXCEPT ![tail].g = rgb.g]
    /\ pc' = "write_b"
    /\ UNCHANGED <<head, tail, enable_consumer, consume_every_modifier,
                   isr_static, rgb, interrupts, tx_main, tx_isr, history>>

MainWriteB ==
    /\ pc = "write_b"
    /\ queue' = [queue EXCEPT ![tail].b = rgb.b]
    /\ pc' = "advance_tail"
    /\ UNCHANGED <<head, tail, enable_consumer, consume_every_modifier,
                   isr_static, rgb, interrupts, tx_main, tx_isr, history>>

\* enqueue(): tail = (tail + 1) % NELEMS(queue)
MainAdvanceTail ==
    /\ pc = "advance_tail"
    /\ tail' = NextIndex(tail)
    /\ pc' = "delay"
    /\ enqueued' = Append(enqueued, rgb)
    /\ was_full' = (was_full \/ full(head, tail'))
    /\ UNCHANGED <<queue, head, enable_consumer, consume_every_modifier,
                   isr_static, rgb, interrupts, tx_main, tx_isr, dequeued>>

\* Variant of MainDelay: the ">>>>> Produced" report that the source keeps in
\* a comment is compiled in, without its ATOMIC_BLOCK: one byte per step.
MainDelayReport ==
    /\ pc = "delay"
    /\ IF tx_main < BannerLen
          THEN tx_main' = tx_main + 1 /\ pc' = pc
          ELSE tx_main' = 0 /\ pc' = "incr"
    /\ UNCHANGED <<shared, isr_static, rgb, interrupts, tx_isr, history>>

\* (the report of the produced record is commented out in the source)
\* uint8_t delay_in_ms = random() % 16; while (delay_in_ms--) _delay_ms(1);
MainDelay ==
    /\ pc = "delay"
    /\ \E delay_in_ms \in 0 .. 15 : pc' = "incr"
    /\ UNCHANGED <<shared, isr_static, rgb, interrupts, tx_main, tx_isr, history>>

\* the three loop conditions ++rgb.b, ++rgb.g, ++rgb.r
MainIncr ==
    /\ pc = "incr"
    /\ rgb' = Odometer(rgb)
    /\ pc' = "test_full"
    /\ UNCHANGED <<shared, isr_static, interrupts, tx_main, tx_isr, history>>

\* main() up to the producer loop
MainStart ==
    \/ MainBanner
    \/ MainTimerInit

\* for (;;) { ... }
Producer ==
    \/ MainTestFull
    \/ MainSetEnable
    \/ MainWriteR
    \/ MainWriteG
    \/ MainWriteB
    \/ MainAdvanceTail
    \/ MainDelay
    \/ MainIncr

Main == MainStart \/ Producer

(* ------------------------ ISR(TIMER0_OVF_vect) ------------------------ *)

\* consume_every + consume_every_modifier, computed in int
Period == consume_every + consume_every_modifier

\* Variant of Due: the enable_consumer test is missing.
DueUngated == Inc8(cycle) >= Period

\* Variant of Due: > in place of >=.
DueStrict == enable_consumer # 0 /\ Inc8(cycle) > Period

\* enable_consumer && ++cycle >= (consume_every + consume_every_modifier)
Due == enable_consumer # 0 /\ Inc8(cycle) >= Period

\* dequeue(): *rgb = queue[head]; head = (head + 1) % NELEMS(queue);
dequeue ==
    /\ dequeued' = Append(dequeued, queue[head])
    /\ head' = NextIndex(head)
    /\ was_full' = (was_full \/ full(head', tail))

\* Variant of TickIdle: the operands of && are swapped, ++cycle comes first.
TickIdleCounts ==
    /\ interrupts
    /\ enable_consumer = 0
    /\ cycle' = Inc8(cycle)
    /\ UNCHANGED <<shared, consume_every, rgb, pc, interrupts, tx_main, tx_isr,
                   history>>

\* enable_consumer is 0: && does not evaluate ++cycle
TickIdle ==
    /\ interrupts
    /\ enable_consumer = 0
    /\ UNCHANGED vars

\* ++cycle is below the period
TickWait ==
    /\ interrupts
    /\ enable_consumer # 0
    /\ ~Due
    /\ cycle' = Inc8(cycle)
    /\ UNCHANGED <<shared, consume_every, rgb, pc, interrupts, tx_main, tx_isr,
                   history>>

\* Variant of TickDequeue: the ISR zeroes the slot it has consumed.
TickDequeueClears ==
    /\ interrupts
    /\ Due
    /\ ~empty(head, tail)
    /\ cycle' = 0
    /\ dequeue
    /\ queue' = Store(queue, head, ZeroRGB)
    /\ tx_isr' = tx_isr + 1
    /\ UNCHANGED <<tail, enable_consumer, consume_every_modifier,
                   consume_every, rgb, pc, interrupts, tx_main, enqueued>>

\* if (!empty()) { dequeue(&rgb); snprintf(...) }  USART_TransmitString(buf);
TickDequeue ==
    /\ interrupts
    /\ Due
    /\ ~empty(head, tail)
    /\ cycle' = 0
    /\ dequeue
    /\ tx_isr' = tx_isr + 1
    /\ UNCHANGED <<queue, tail, enable_consumer, consume_every_modifier,
                   consume_every, rgb, pc, interrupts, tx_main, enqueued>>

\* Variant of TickUnderrun: the underrun branch without enable_consumer = 0.
TickUnderrunKeepsEnabled ==
    /\ interrupts
    /\ Due
    /\ empty(head, tail)
    /\ cycle' = 0
    /\ consume_every' = Inc8(consume_every)
    /\ tx_isr' = tx_isr + 1
    /\ UNCHANGED <<queue, head, tail, enable_consumer, consume_every_modifier,
                   rgb, pc, interrupts, tx_main, history>>

\* else { consume_every++; enable_consumer = 0; ... }  USART_TransmitString(buf);
TickUnderrun ==
    /\ interrupts
    /\ Due
    /\ empty(head, tail)
    /\ cycle' = 0
    /\ consume_every' = Inc8(consume_every)
    /\ enable_consumer' = 0
    /\ tx_isr' = tx_isr + 1
    /\ UNCHANGED <<queue, head, tail, consume_every_modifier, rgb, pc,
                   interrupts, tx_main, history>>

Tick ==
    \/ TickIdle
    \/ TickWait
    \/ TickDequeue
    \/ TickUnderrun

(* --------------------------- specifications --------------------------- *)

Next == Main \/ Tick

\* The program from its first statement.
Spec == Init /\ [][Next]_vars

\* The timer fires again and again, and the AVR executes at least one
\* instruction of main() between two interrupts.
FairSpec == Spec /\ WF_vars(Main) /\ WF_vars(Tick)


(* ------------------- the program after many underruns ------------------ *)

\* Every underrun leaves head = tail, cycle = 0 and enable_consumer = 0 and
\* adds one to consume_every; between two underruns the producer enqueues
\* as many records as the interleaving lets it.  InitLate is the state right
\* after underrun number Uint8Mod - 2, at a moment when the number of records
\* produced so far is a multiple of N and of the number of colours, so that
\* tail and rgb are back at their first values and the slots hold the last N
\* records produced.  The histories are restarted there.
Colours == FieldMod * FieldMod * FieldMod

InitLate ==
    InitAt(Uint8Mod - 1, "test_full", TRUE, TRUE,
           [i \in Index |-> NthRGB((Colours * N - N + i) % Colours)])

NextLate == Producer \/ Tick

SpecLate == InitLate /\ [][NextLate]_vars

FairSpecLate == SpecLate /\ WF_vars(Producer) /\ WF_vars(Tick)

(* ------------------- the queue functions on their own ------------------ *)

\* Records handed to enqueue() by a caller of the queue functions.
Sample == {rec \in RGB : rec.r = 0 /\ rec.g = 0 /\ rec.b \in {0, 1}}

\* enqueue(&rec) called on a queue that is not full
ApiEnqueue(rec) ==
    /\ ~full(head, tail)
    /\ Len(enqueued) < MaxEnq
    /\ queue' = Store(queue, tail, rec)
    /\ tail' = NextIndex(tail)
    /\ enqueued' = Append(enqueued, rec)
    /\ was_full' = (was_full \/ full(head, tail'))
    /\ UNCHANGED <<head, enable_consumer, consume_every_modifier, isr_static,
                   rgb, pc, interrupts, tx_main, tx_isr, dequeued>>

\* dequeue(&rec) called on a queue that is not empty
ApiDequeue ==
    /\ ~empty(head, tail)
    /\ dequeue
    /\ UNCHANGED <<queue, tail, enable_consumer, consume_every_modifier,
                   isr_static, rgb, pc, interrupts, tx_main, tx_isr, enqueued>>

NextFifo == (\E rec \in Sample : ApiEnqueue(rec)) \/ ApiDequeue

SpecFifo == Init /\ [][NextFifo]_vars

(* ------------------- the program with the modifier knob ---------------- *)

\* Values the knob is turned to.
ModifierValues == (0 .. MaxModifier) \cup {Uint8Mod - 1}

\* consume_every_modifier = m;  written from outside the producer loop and
\* the ISR ("increase or decrease it with a button press, or with a knob")
SetModifier(m) ==
    /\ m # consume_every_modifier
    /\ consume_every_modifier' = m
    /\ UNCHANGED <<queue, head, tail, enable_consumer, isr_static, rgb, pc,
                   interrupts, tx_main, tx_isr, history>>

Knob == \E m \in ModifierValues : SetModifier(m)

NextKnob == Next \/ Knob

SpecKnob == Init /\ [][NextKnob]_vars

(* ------------------------------- claims -------------------------------- *)

IsPrefix(s, t) ==
    /\ Len(s) <= Len(t)
    /\ \A i \in 1 .. Len(s) : s[i] = t[i]

\* Number of records enqueued and not yet dequeued, from the histories.
Pending == Len(enqueued) - Len(dequeued)

\* main() is inside enqueue().
InEnqueue == pc \in {"write_r", "write_g", "write_b", "advance_tail"}

\* C1: whenever enqueue is only called on a queue that is not full and
\* dequeue only on one that is not empty, the records dequeue has returned
\* are at every moment a prefix of the records passed to enqueue, in the
\* same order (nothing lost, duplicated or reordered, wrap-around included).
C1_FifoOrder == IsPrefix(dequeued, enqueued)

\* C1 witness: both cursors have wrapped around and records of different
\* values have gone through the queue.
C1_Witness ==
    /\ Len(dequeued) > N
    /\ Len(dequeued) = Len(enqueued)
    /\ \E i, j \in 1 .. Len(dequeued) : dequeued[i] # dequeued[j]

\* C2: in the running program, whatever the interleaving of timer ticks
\* with the steps of main(), main() is never inside enqueue() while the
\* queue is full, tail is never advanced on a full queue, and head is never
\* advanced (dequeue) on an empty queue.
C2_Preconditions ==
    /\ [](InEnqueue => ~full(head, tail))
    /\ [][/\ tail' # tail => ~full(head, tail)
          /\ head' # head => ~empty(head, tail)]_vars

\* C2 witness: the ISR has dequeued since main() tested full() and main() is
\* now between the slot write and the tail update, after the queue had
\* filled up.
C2_Witness ==
    /\ pc = "advance_tail"
    /\ was_full
    /\ Len(dequeued) > 0
    /\ enable_consumer = 1

\* C3: the slot main() is writing (index tail, before tail is advanced) is
\* never one of the slots that hold a record enqueued and not yet dequeued,
\* and those slots hold exactly these records, completely written and in
\* order from head on: no unconsumed record is overwritten.
C3_NoOverwrite ==
    /\ Pending \in 0 .. (N - 1)
    /\ InEnqueue => tail \notin {(head + i) % N : i \in 0 .. (Pending - 1)}
    /\ \A i \in 0 .. (Pending - 1) :
          queue[(head + i) % N] = enqueued[Len(dequeued) + 1 + i]

\* C3 witness: main() has half written a slot while the queue holds
\* unconsumed records, after tail has wrapped around and the ISR has dequeued.
C3_Witness ==
    /\ pc = "write_g"
    /\ Pending = N - 2
    /\ Len(enqueued) > N
    /\ Len(dequeued) > 0

\* A timer tick on which a drain is due and the queue is empty.
UnderrunTick == Tick /\ Due /\ empty(head, tail)

\* C4: on a tick where a drain is due (enable_consumer set and the
\* incremented cycle at or above consume_every + modifier) and the queue is
\* empty, consume_every increases by exactly 1, enable_consumer becomes 0,
\* cycle is reset to 0 and head is unchanged.
C4_UnderrunStep ==
    [][UnderrunTick =>
          /\ consume_every' = consume_every + 1
          /\ enable_consumer' = 0
          /\ cycle' = 0
          /\ head' = head
          /\ dequeued' = dequeued]_vars

\* C5: while enable_consumer is set and the queue is not empty, a tick
\* whose incremented cycle is below consume_every + modifier only counts,
\* and the tick whose incremented cycle equals consume_every + modifier
\* dequeues exactly one record (the one at head) and resets cycle to 0; the
\* count never passes the period, so dequeues are exactly
\* consume_every + modifier ticks apart.
C5_DrainSpacing ==
    [][(Tick /\ enable_consumer # 0 /\ ~empty(head, tail)) =>
          IF cycle + 1 < Period
             THEN /\ head' = head
                  /\ dequeued' = dequeued
                  /\ cycle' = cycle + 1
             ELSE /\ cycle + 1 = Period
                  /\ head' = NextIndex(head)
                  /\ dequeued' = Append(dequeued, queue[head])
                  /\ cycle' = 0]_vars

\* C6: consume_every never decreases: in every step its new value is at
\* least its old value.
C6_Monotone == [][consume_every' >= consume_every]_vars

\* C7: no dequeue and no underrun adjustment happens before the queue has
\* been full at least once: every step that changes head or consume_every
\* starts in a state by which the queue has been full.
C7_Gate ==
    [][(head' # head \/ consume_every' # consume_every) => was_full]_vars

\* C7 witness: after the queue filled up, a record has been dequeued and an
\* underrun has raised consume_every.
C7_Witness ==
    /\ was_full
    /\ Len(dequeued) > 0
    /\ consume_every > 1

\* C8: every change of enable_consumer from 0 to 1 happens in a state where
\* the queue is full.
C8_ArmWhenFull ==
    [][(enable_consumer = 0 /\ enable_consumer' = 1) => full(head, tail)]_vars

\* main() is in its spin loop with a record to enqueue and the queue full.
Spinning ==
    /\ pc \in {"test_full", "set_enable"}
    /\ full(head, tail)
    /\ Len(enqueued) < MaxEnq

\* C9: under fair timer ticks and fair progress of main(), with the
\* modifier at 0, whenever the producer is spinning on a full queue,
\* enable_consumer gets set, a further record is dequeued, and the producer
\* enqueues its pending record.
C9_ProducerProgress ==
    /\ Spinning ~> (enable_consumer = 1)
    /\ \A j \in 0 .. MaxEnq :
          (Spinning /\ Len(dequeued) = j) ~> (Len(dequeued) > j)
    /\ \A k \in 0 .. MaxEnq :
          (Spinning /\ Len(enqueued) = k) ~> (Len(enqueued) > k)

\* C9 witness: the producer has enqueued more records than the queue holds
\* at once, so it has been through the spin loop on a full queue and out of
\* it again.
C9_Witness ==
    /\ was_full
    /\ Len(enqueued) > N
    /\ consume_every_modifier = 0

\* main() has put some, but not all, bytes of a string on the USART.
MainMidMessage == 0 < tx_main /\ tx_main < BannerLen

\* C10: the ISR never transmits a message while a string transmitted by
\* main() is only partly written.
C10_NoInterleave == [][tx_isr' # tx_isr => ~MainMidMessage]_vars

\* C10 witness: main() has transmitted its banner and the ISR has
\* transmitted a message of its own.
C10_Witness ==
    /\ interrupts
    /\ tx_isr > 0
    /\ tx_main = 0

\* C11: in every reachable state full() and empty() are not both true.
C11_NotFullAndEmpty == ~(full(head, tail) /\ empty(head, tail))

\* C11 witness: after both cursors have moved the queue is full (and so
\* not empty) with tail wrapped around behind head.
C11_Witness ==
    /\ full(head, tail)
    /\ tail < head
    /\ Len(dequeued) > 0

\* C12: full() holds exactly when the number of records enqueued and not
\* yet dequeued is N - 1, empty() exactly when it is 0, and that number is
\* (tail - head) mod N; so from an empty queue, without dequeues, full() is
\* false after each of the first N - 2 enqueues and true after N - 1.
C12_FullAtCapacity ==
    /\ Pending = (tail + N - head) % N
    /\ full(head, tail) <=> (Pending = N - 1)
    /\ empty(head, tail) <=> (Pending = 0)

\* C12 witness: N - 1 enqueues into the empty queue, no dequeue, and the
\* queue reports full.
C12_Witness ==
    /\ Len(dequeued) = 0
    /\ Len(enqueued) = N - 1
    /\ full(head, tail)

\* C13: a timer tick that finds enable_consumer at 0 changes nothing: cycle
\* is not incremented, head, tail, the slots, consume_every and
\* enable_consumer keep their values, and nothing is transmitted.
C13_IdleTick ==
    [][(Tick /\ enable_consumer = 0) =>
          UNCHANGED <<cycle, head, tail, queue, consume_every,
                      enable_consumer, tx_isr, tx_main, dequeued>>]_vars

\* C13 witness: the interrupt is enabled and enable_consumer is 0 again
\* after an underrun, with records already consumed: ticks arrive idle.
C13_Witness ==
    /\ interrupts
    /\ enable_consumer = 0
    /\ consume_every > 1
    /\ Len(dequeued) > 0
    /\ ENABLED TickIdle

\* C14: a step of main() leaves head, cycle and consume_every unchanged
\* and never takes enable_consumer from 1 to 0; a step of the ISR leaves
\* tail and the slots unchanged and never takes enable_consumer from 0 to 1.
C14_Ownership ==
    [][/\ Main => /\ UNCHANGED <<head, cycle, consume_every>>
                  /\ ~(enable_consumer # 0 /\ enable_consumer' = 0)
       /\ Tick => /\ UNCHANGED <<tail, queue>>
                  /\ ~(enable_consumer = 0 /\ enable_consumer' # 0)]_vars

\* C14 witness: both contexts have written what they own: main() has
\* wrapped tail and re-armed the consumer after an underrun, the ISR has
\* moved head and raised consume_every.
C14_Witness ==
    /\ Len(enqueued) > N
    /\ head # 0
    /\ consume_every > 1
    /\ enable_consumer = 1

\* C15 as stated: given enable_consumer = 0 and a queue that is not empty,
\* the tick that is number consume_every + modifier by the cycle counter
\* performs a dequeue.
C15_DrainWhenDisabled ==
    (interrupts /\ enable_consumer = 0 /\ ~empty(head, tail)
        /\ cycle + 1 = Period)
    => ENABLED TickDequeue

\* C15 amended: given enable_consumer = 1 and a queue that is not empty, a
\* tick whose incremented cycle is below consume_every + modifier performs
\* no dequeue and keeps the incremented cycle, and the tick whose
\* incremented cycle is at or above consume_every + modifier performs
\* exactly one dequeue and resets cycle to 0; while enable_consumer is 0 no
\* tick dequeues or counts.
C15_GatedDrain ==
    /\ [](enable_consumer = 0 => ~ENABLED TickDequeue)
    /\ [][(Tick /\ ~empty(head, tail)) =>
             IF enable_consumer = 0
                THEN UNCHANGED <<head, dequeued, cycle>>
                ELSE IF Inc8(cycle) < Period
                        THEN /\ head' = head
                             /\ dequeued' = dequeued
                             /\ cycle' = Inc8(cycle)
                        ELSE /\ head' = NextIndex(head)
                             /\ dequeued' = Append(dequeued, queue[head])
                             /\ cycle' = 0]_vars

\* C15 witness: with a period above 1 the ISR has waited and then
\* dequeued: cycle is back at 0 with the consumer still enabled and records
\* left in the queue.
C15_Witness ==
    /\ enable_consumer = 1
    /\ consume_every > 1
    /\ cycle = 0
    /\ Len(dequeued) > N
    /\ ~empty(head, tail)

\* C16: in every reachable state 0 <= head < N and 0 <= tail < N, so
\* queue[head] and queue[tail] are elements of the array.
C16_CursorsInRange ==
    /\ head \in Index
    /\ tail \in Index
    /\ DOMAIN queue = Index

\* C16 witness: head is at the last element of the array and tail has
\* wrapped around to an index below it.
C16_Witness ==
    /\ head = N - 1
    /\ tail < head
    /\ Len(enqueued) > N

\* C17: whenever cycle is already at or above consume_every + modifier
\* (the modifier was raised and then lowered), the next tick with
\* enable_consumer set performs a drain attempt and resets cycle to 0.
C17_NoMissedThreshold ==
    [][(Tick /\ enable_consumer # 0 /\ cycle >= Period) =>
          /\ cycle' = 0
          /\ tx_isr' = tx_isr + 1]_vars

\* C18: for every reachable consume_every and every modifier the 8-bit
\* cycle counter can reach consume_every + modifier, and with
\* enable_consumer set every tick either moves the counter one up towards
\* it or is a drain attempt: the counter never wraps before a drain.
C18_ThresholdReachable ==
    /\ [](\E c \in 0 .. (Uint8Mod - 1) : c >= Period)
    /\ [][(Tick /\ enable_consumer # 0) =>
             (cycle' = cycle + 1 \/ tx_isr' = tx_isr + 1)]_vars

\* C19: consume_every is incremented at most once per arming.  Every step
\* that changes consume_every also clears enable_consumer (1 -> 0), only
\* main()'s store enable_consumer = 1 sets the flag again, and a tick with
\* the flag clear leaves consume_every unchanged, however many there are.
C19_OncePerArming ==
    [][/\ (consume_every' # consume_every) =>
              (enable_consumer = 1 /\ enable_consumer' = 0)
       /\ (enable_consumer = 0 /\ enable_consumer' # 0) =>
              (pc = "set_enable" /\ pc' = "test_full")
       /\ (Tick /\ enable_consumer = 0) =>
              (consume_every' = consume_every)]_vars

\* C19 witness: the second underrun has happened (consume_every went
\* 1 -> 2 -> 3 over two armings) and the disarmed consumer faces an empty
\* buffer again.
C19_Witness ==
    /\ consume_every >= 3
    /\ enable_consumer = 0
    /\ empty(head, tail)

\* The pass (from 0) of the producer's three loops that the i-th enqueued
\* record belongs to.
PassOf(i) == (i - 1) \div Colours

\* C20: the producer enqueues the records in odometer order starting from
\* (0,0,0): the i-th record is the ((i - 1) mod Colours)-th triplet counted
\* with b fastest, then g, then r; a wrap of b increments g and a wrap of g
\* increments r; within one pass no value is enqueued twice and a complete
\* pass covers the whole record space; after r wraps the enumeration
\* restarts at (0,0,0).
C20_OdometerOrder ==
    /\ \A i \in 1 .. Len(enqueued) :
          enqueued[i] = NthRGB((i - 1) % Colours)
    /\ \A i \in 1 .. (Len(enqueued) - 1) :
          LET x == enqueued[i]
              y == enqueued[i + 1]
          IN  /\ y.b = (x.b + 1) % FieldMod
              /\ y.g = IF y.b = 0 THEN (x.g + 1) % FieldMod ELSE x.g
              /\ y.r = IF y.b = 0 /\ y.g = 0 THEN (x.r + 1) % FieldMod ELSE x.r
    /\ \A i, j \in 1 .. Len(enqueued) :
          (i # j /\ PassOf(i) = PassOf(j)) => enqueued[i] # enqueued[j]
    /\ Len(enqueued) >= Colours =>
          {enqueued[i] : i \in 1 .. Colours} = RGB

\* C20 witness: a whole pass has been enqueued, r has wrapped, and the
\* first record of the second pass, (0,0,0) again, is in the queue's history.
C20_Witness ==
    /\ Len(enqueued) > Colours
    /\ enqueued[Colours] = [r |-> FieldMod - 1, g |-> FieldMod - 1, b |-> FieldMod - 1]
    /\ enqueued[Colours + 1] = ZeroRGB

=============================================================================
